---------------------------- MODULE Spec2Model ----------------------------
(***************************************************************************)
(* The autowah effect of OpenAL Soft (Alc/effects/autowah.cpp): the        *)
(* parameter interface (the ALautowah set and get calls), the factory's    *)
(* default properties, and the effect state (deviceUpdate, update,         *)
(* process).                                                               *)
(*                                                                         *)
(* Numbers.  An ALfloat of the property bag is kept as its IEEE-754        *)
(* single-precision bit pattern (a non-negative float orders as its bit    *)
(* pattern does, one ulp is +/-1, a NaN compares false with everything).   *)
(* An ALfloat of the effect state is kept in fixed point, FX units per     *)
(* 1.0f, every product and quotient rounded to the nearest unit.  expf,    *)
(* log10, sqrt, cosf and sinf are computed by integer approximations that  *)
(* are stated where they are defined.                                      *)
(***************************************************************************)
EXTENDS Integers, Sequences, FiniteSets, TLC

(* ------------------------------------------------------------------ *)
(* Bounds of the model                                                 *)
(* ------------------------------------------------------------------ *)

\* process calls explored per behaviour
MaxCalls == 2

\* Scaled-down capacities of the state's arrays.
BUFFERSIZE == 2
MAX_AMBI_CHANNELS == 2
MAX_OUTPUT_CHANNELS == 1

(* ------------------------------------------------------------------ *)
(* Fixed point                                                         *)
(* ------------------------------------------------------------------ *)

\* units per 1.0f
FX == 100 * 100

Abs(x) == IF x < 0 THEN -x ELSE x

\* x/d rounded to the nearest integer (d > 0), halves rounded up
RoundDiv(x, d) == (x + d \div 2) \div d

FMul(a, b) == RoundDiv(a * b, FX)

\* a/b; the sign of b is moved to the numerator.  b # 0.
FDiv(a, b) == IF b > 0 THEN RoundDiv(a * FX, b) ELSE RoundDiv(-(a * FX), -b)

minf(a, b) == IF a > b THEN b ELSE a
maxf(a, b) == IF a > b THEN a ELSE b
clampf(val, lo, hi) == minf(hi, maxf(lo, val))

(* ------------------------------------------------------------------ *)
(* IEEE-754 single precision bit patterns (sign bit clear)             *)
(* ------------------------------------------------------------------ *)

MantBits == 2^23
FInf == 255 * MantBits
FNaN == 255 * MantBits + 2^22
IsNaN(f) == f > FInf

\* The comparisons of two floats; false when either is a NaN.
FGe(a, b) == ~IsNaN(a) /\ ~IsNaN(b) /\ a >= b
FLe(a, b) == ~IsNaN(a) /\ ~IsNaN(b) /\ a <= b
FLt(a, b) == ~IsNaN(a) /\ ~IsNaN(b) /\ a < b
FGt(a, b) == ~IsNaN(a) /\ ~IsNaN(b) /\ a > b

Pow2(k) == 2^k

\* The value of a finite normal float, in fixed point: the mantissa cut to
\* 15 bits, times FX, shifted by the exponent.
FloatToFix(f) ==
    LET e == f \div MantBits
        m == (MantBits + (f % MantBits)) \div Pow2(9)
    IN  IF e >= 141 THEN m * FX * Pow2(e - 141)
        ELSE IF 141 - e > 30 THEN 0
        ELSE RoundDiv(m * FX, Pow2(141 - e))

\* log10 of a finite normal float, in fixed point:
\* log10(2) * (exponent + mantissa fraction), the piecewise linear log2.
\* It is exact at the powers of two and off by less than 0.03 elsewhere.
Log10Of(f) ==
    LET e == (f \div MantBits) - 127
        t == RoundDiv((f % MantBits) * 8, MantBits \div (FX \div 8))
    IN  RoundDiv((e * FX + t) * 3010, FX)


(* ------------------------------------------------------------------ *)
(* <cmath> in fixed point                                              *)
(* ------------------------------------------------------------------ *)

\* expf(y) for y <= 0: the Pade approximant (2 + y)/(2 - y), within 0.001
\* of expf for -0.5 <= y <= 0 and never outside [0, 1] for -2 <= y <= 0.
expf(y) == FDiv(2 * FX + y, 2 * FX - y)

RECURSIVE SqrtSearch(_, _, _)
\* the largest r in lo..hi with r*r <= v
SqrtSearch(v, lo, hi) ==
    IF lo >= hi THEN lo
    ELSE LET mid == (lo + hi + 1) \div 2
         IN  IF mid * mid <= v THEN SqrtSearch(v, mid, hi)
             ELSE SqrtSearch(v, lo, mid - 1)

\* std::sqrt(x) for 0 <= x < 20.0, rounded down
sqrt(x) == SqrtSearch(x * FX, 0, 5 * FX)

\* sinf(x * Tau) for 0 <= x <= 0.5: Bhaskara's approximation
\* 32g/(5 - 8g) with g = x(1 - 2x), within 0.002 of sinf.
SinTau(x) ==
    LET g == FMul(x, FX - 2 * x)
    IN  RoundDiv(32 * g * FX, 5 * FX - 8 * g)

\* cosf(x * Tau) for 0 <= x <= 0.5, as the sine of the complement
CosTau(x) ==
    IF 4 * x <= FX THEN SinTau(FX \div 4 - x) ELSE -SinTau(x - FX \div 4)

\* lerp of alu.h: val1 + (val2 - val1)*mu
lerp(val1, val2, mu) == val1 + FMul(val2 - val1, mu)

(* ------------------------------------------------------------------ *)
(* The EFX autowah constants (AL/efx.h), as float bit patterns         *)
(* ------------------------------------------------------------------ *)

\* parameter identifiers
AL_AUTOWAH_ATTACK_TIME == 1
AL_AUTOWAH_RELEASE_TIME == 2
AL_AUTOWAH_RESONANCE == 3
AL_AUTOWAH_PEAK_GAIN == 4

\* 0.0001f, 1.0f, 0.06f
AL_AUTOWAH_MIN_ATTACK_TIME == 953267991
AL_AUTOWAH_MAX_ATTACK_TIME == 1065353216
AL_AUTOWAH_DEFAULT_ATTACK_TIME == 1031127695
\* 0.0001f, 1.0f, 0.06f
AL_AUTOWAH_MIN_RELEASE_TIME == 953267991
AL_AUTOWAH_MAX_RELEASE_TIME == 1065353216
AL_AUTOWAH_DEFAULT_RELEASE_TIME == 1031127695
\* 2.0f, 1000.0f, 1000.0f
AL_AUTOWAH_MIN_RESONANCE == 1073741824
AL_AUTOWAH_MAX_RESONANCE == 1148846080
AL_AUTOWAH_DEFAULT_RESONANCE == 1148846080
\* 0.00003f, 31621.0f, 11.22f
AL_AUTOWAH_MIN_PEAK_GAIN == 939239554
AL_AUTOWAH_MAX_PEAK_GAIN == 1190595072
AL_AUTOWAH_DEFAULT_PEAK_GAIN == 1093895455

FloatParams ==
    {AL_AUTOWAH_ATTACK_TIME, AL_AUTOWAH_RELEASE_TIME, AL_AUTOWAH_RESONANCE,
     AL_AUTOWAH_PEAK_GAIN}

MinOf(param) ==
    CASE param = AL_AUTOWAH_ATTACK_TIME -> AL_AUTOWAH_MIN_ATTACK_TIME
      [] param = AL_AUTOWAH_RELEASE_TIME -> AL_AUTOWAH_MIN_RELEASE_TIME
      [] param = AL_AUTOWAH_RESONANCE -> AL_AUTOWAH_MIN_RESONANCE
      [] param = AL_AUTOWAH_PEAK_GAIN -> AL_AUTOWAH_MIN_PEAK_GAIN

MaxOf(param) ==
    CASE param = AL_AUTOWAH_ATTACK_TIME -> AL_AUTOWAH_MAX_ATTACK_TIME
      [] param = AL_AUTOWAH_RELEASE_TIME -> AL_AUTOWAH_MAX_RELEASE_TIME
      [] param = AL_AUTOWAH_RESONANCE -> AL_AUTOWAH_MAX_RESONANCE
      [] param = AL_AUTOWAH_PEAK_GAIN -> AL_AUTOWAH_MAX_PEAK_GAIN

\* The field of the property bag a recognized identifier names.
FieldOf(p, param) ==
    CASE param = AL_AUTOWAH_ATTACK_TIME -> p.AttackTime
      [] param = AL_AUTOWAH_RELEASE_TIME -> p.ReleaseTime
      [] param = AL_AUTOWAH_RESONANCE -> p.Resonance
      [] param = AL_AUTOWAH_PEAK_GAIN -> p.PeakGain

(* ------------------------------------------------------------------ *)
(* Inputs of the parameter interface                                   *)
(* ------------------------------------------------------------------ *)

\* Identifiers a caller passes: the four recognized ones and two others.
ParamIds == 0 .. 5

\* Values a caller passes with a recognized identifier: each bound of the
\* parameter, the floats one ulp outside them, and a NaN; with another
\* identifier: 1.0f or a NaN.
FloatInputs(param) ==
    IF param \in FloatParams
    THEN {MinOf(param) - 1, MinOf(param), MaxOf(param), MaxOf(param) + 1, FNaN}
    ELSE {AL_AUTOWAH_MAX_ATTACK_TIME, FNaN}

IntInputs == {0, 1}

\* Second element of a caller's vector; the vector calls never read it.
FloatTails == {0, FNaN}

(* ------------------------------------------------------------------ *)
(* State                                                               *)
(* ------------------------------------------------------------------ *)

VARIABLES
    props,      \* EffectProps::Autowah: AttackTime, ReleaseTime, Resonance, PeakGain
    alError,    \* the error the last call signalled through alSetError
    outVals,    \* the caller's array a get call writes to
    lastOp,     \* the call made last
    state,      \* the ALautowahState object
    ready,      \* deviceUpdate has run on the object
    frame,      \* the running process call: its position, arguments and locals
    samplesOut, \* the output lines the running process call mixes into
    hist        \* what the calls have consumed and produced so far

parVars == <<props, alError, outVals>>
fxVars == <<state, ready, frame, samplesOut, hist>>
vars == <<props, alError, outVals, lastOp, state, ready, frame, samplesOut, hist>>

(* ------------------------------------------------------------------ *)
(* AutowahStateFactory::getDefaultProps                                *)
(* ------------------------------------------------------------------ *)

getDefaultProps ==
    [AttackTime |-> AL_AUTOWAH_DEFAULT_ATTACK_TIME,
     ReleaseTime |-> AL_AUTOWAH_DEFAULT_RELEASE_TIME,
     Resonance |-> AL_AUTOWAH_DEFAULT_RESONANCE,
     PeakGain |-> AL_AUTOWAH_DEFAULT_PEAK_GAIN]

(* ------------------------------------------------------------------ *)
(* ALautowah_setParamf and the other entries of the vtable             *)
(* ------------------------------------------------------------------ *)

InRangeOpen(val, lo, hi) == FGt(val, lo) /\ FLt(val, hi)

InRangeNotOutside(val, lo, hi) == ~(FLt(val, lo) \/ FGt(val, hi))

\* val >= MIN && val <= MAX
InRange(val, lo, hi) == FGe(val, lo) /\ FLe(val, hi)

\* The switch's default: branch of the float setter and getter.
DefaultCaseSilent(p) == [props |-> p, err |-> "AL_NO_ERROR"]

DefaultCase(p) == [props |-> p, err |-> "AL_INVALID_ENUM"]

\* The property bag and the error signalled, after ALautowah_setParamf.
SetParamf(p, param, val) ==
    CASE param = AL_AUTOWAH_ATTACK_TIME ->
           IF ~InRange(val, AL_AUTOWAH_MIN_ATTACK_TIME, AL_AUTOWAH_MAX_ATTACK_TIME)
           THEN [props |-> p, err |-> "AL_INVALID_VALUE"]
           ELSE [props |-> [p EXCEPT !.AttackTime = val], err |-> "AL_NO_ERROR"]
      [] param = AL_AUTOWAH_RELEASE_TIME ->
           IF ~InRange(val, AL_AUTOWAH_MIN_RELEASE_TIME, AL_AUTOWAH_MAX_RELEASE_TIME)
           THEN [props |-> p, err |-> "AL_INVALID_VALUE"]
           ELSE [props |-> [p EXCEPT !.ReleaseTime = val], err |-> "AL_NO_ERROR"]
      [] param = AL_AUTOWAH_RESONANCE ->
           IF ~InRange(val, AL_AUTOWAH_MIN_RESONANCE, AL_AUTOWAH_MAX_RESONANCE)
           THEN [props |-> p, err |-> "AL_INVALID_VALUE"]
           ELSE [props |-> [p EXCEPT !.Resonance = val], err |-> "AL_NO_ERROR"]
      [] param = AL_AUTOWAH_PEAK_GAIN ->
           IF ~InRange(val, AL_AUTOWAH_MIN_PEAK_GAIN, AL_AUTOWAH_MAX_PEAK_GAIN)
           THEN [props |-> p, err |-> "AL_INVALID_VALUE"]
           ELSE [props |-> [p EXCEPT !.PeakGain = val], err |-> "AL_NO_ERROR"]
      [] OTHER -> DefaultCase(p)

ALautowah_setParamf(param, val) ==
    LET r == SetParamf(props, param, val)
    IN  /\ props' = r.props
        /\ alError' = r.err
        /\ lastOp' = [op |-> "setParamf", param |-> param, val |-> val]
        /\ UNCHANGED <<outVals, fxVars>>

\* ALautowah_setParamf(props, context, param, vals[0])
ALautowah_setParamfv(param, vals) ==
    LET r == SetParamf(props, param, vals[1])
    IN  /\ props' = r.props
        /\ alError' = r.err
        /\ lastOp' = [op |-> "setParamfv", param |-> param, val |-> vals[1]]
        /\ UNCHANGED <<outVals, fxVars>>

ALautowah_setParami(param, val) ==
    /\ alError' = "AL_INVALID_ENUM"
    /\ lastOp' = [op |-> "setParami", param |-> param, val |-> val]
    /\ UNCHANGED <<props, outVals, fxVars>>

ALautowah_setParamiv(param, vals) ==
    /\ alError' = "AL_INVALID_ENUM"
    /\ lastOp' = [op |-> "setParamiv", param |-> param, val |-> vals[1]]
    /\ UNCHANGED <<props, outVals, fxVars>>

\* The caller's array and the error signalled, after ALautowah_getParamf.
GetParamf(p, param, out) ==
    IF param \in FloatParams
    THEN [out |-> [out EXCEPT ![1] = FieldOf(p, param)], err |-> "AL_NO_ERROR"]
    ELSE [out |-> out, err |-> DefaultCase(p).err]

ALautowah_getParamf(param) ==
    LET r == GetParamf(props, param, outVals)
    IN  /\ outVals' = r.out
        /\ alError' = r.err
        /\ lastOp' = [op |-> "getParamf", param |-> param, val |-> 0]
        /\ UNCHANGED <<props, fxVars>>

\* ALautowah_getParamf(props, context, param, vals)
ALautowah_getParamfv(param) ==
    LET r == GetParamf(props, param, outVals)
    IN  /\ outVals' = r.out
        /\ alError' = r.err
        /\ lastOp' = [op |-> "getParamfv", param |-> param, val |-> 0]
        /\ UNCHANGED <<props, fxVars>>

ALautowah_getParami(param) ==
    /\ alError' = "AL_INVALID_ENUM"
    /\ lastOp' = [op |-> "getParami", param |-> param, val |-> 0]
    /\ UNCHANGED <<props, outVals, fxVars>>

ALautowah_getParamiv(param) ==
    /\ alError' = "AL_INVALID_ENUM"
    /\ lastOp' = [op |-> "getParamiv", param |-> param, val |-> 0]
    /\ UNCHANGED <<props, outVals, fxVars>>


(* ------------------------------------------------------------------ *)
(* ALautowahState                                                      *)
(* ------------------------------------------------------------------ *)

MIN_FREQ == 20
MAX_FREQ == 2500
Q_FACTOR == 5

Samples == 0 .. BUFFERSIZE - 1
AmbiChans == 0 .. MAX_AMBI_CHANNELS - 1
OutChans == 0 .. MAX_OUTPUT_CHANNELS - 1

ZeroGains == [o \in OutChans |-> 0]
ZeroLine == [i \in Samples |-> 0]

\* The object create() returns: new ALautowahState{} zero-initializes it.
NewState ==
    [mAttackRate |-> 0, mReleaseRate |-> 0, mResonanceGain |-> 0,
     mPeakGain |-> 0, mFreqMinNorm |-> 0, mBandwidthNorm |-> 0,
     mEnvDelay |-> 0,
     mEnv |-> [i \in Samples |-> [cos_w0 |-> 0, alpha |-> 0]],
     mChans |-> [c \in AmbiChans |->
                   [Filter |-> [z1 |-> 0, z2 |-> 0],
                    CurrentGains |-> ZeroGains,
                    TargetGains |-> ZeroGains]],
     mBufferOut |-> ZeroLine,
     mOutTarget |-> 0]

IdleFrame == [pc |-> "idle"]

NewHist ==
    [calls |-> 0,       \* process calls begun
     feed |-> <<>>,     \* |samplesIn[0][i]| of every sample since the reset
     envs |-> <<0>>,    \* env_delay at the reset and after each of those samples
     steady |-> TRUE,   \* no update since the first of those samples
     norms |-> <<>>,    \* the normalized frequency of each sample of the last block
     snap |-> <<>>,     \* the six rates and gains when the running call began
     used |-> {},       \* the rates and gains the running call's loops have read
     quiet |-> TRUE,    \* every process call since the reset was given silence
     done |-> 0]        \* samplesToDo of the last filter loop run since the
                        \* reset or the call's begin

\* The part of hist a reset starts again.
ResetHist(h) ==
    [h EXCEPT !.feed = <<>>, !.envs = <<0>>, !.steady = TRUE,
              !.quiet = TRUE, !.done = 0]

(* ------------------------------------------------------------------ *)
(* ALautowahState::deviceUpdate                                        *)
(* ------------------------------------------------------------------ *)

ResetChanKeepZ2(chan) ==
    [chan EXCEPT !.CurrentGains = ZeroGains, !.Filter.z1 = 0]

\* The body of deviceUpdate's loop over mChans.
ResetChan(chan) ==
    [chan EXCEPT !.CurrentGains = ZeroGains, !.Filter.z1 = 0, !.Filter.z2 = 0]

DeviceDefaultsKeepEnvDelay(st) ==
    [st EXCEPT !.mAttackRate = FX, !.mReleaseRate = FX,
               !.mResonanceGain = 10 * FX, !.mPeakGain = (45 * FX) \div 10,
               !.mFreqMinNorm = 5, !.mBandwidthNorm = (5 * FX) \div 100]

\* The seven assignments that open deviceUpdate: 1.0f, 1.0f, 10.0f, 4.5f,
\* 4.5e-4f (5 units: the nearest to 4.5), 0.05f, 0.0f.
DeviceDefaults(st) ==
    [st EXCEPT !.mAttackRate = FX, !.mReleaseRate = FX,
               !.mResonanceGain = 10 * FX, !.mPeakGain = (45 * FX) \div 10,
               !.mFreqMinNorm = 5, !.mBandwidthNorm = (5 * FX) \div 100,
               !.mEnvDelay = 0]

DeviceUpdated(st) ==
    [DeviceDefaults(st) EXCEPT
        !.mEnv = [i \in Samples |-> [cos_w0 |-> 0, alpha |-> 0]],
        !.mChans = [c \in AmbiChans |-> ResetChan(st.mChans[c])]]

\* The host calls it with the mixer quiesced.
deviceUpdate ==
    /\ frame.pc = "idle"
    /\ state' = DeviceUpdated(state)
    /\ ready' = TRUE
    /\ hist' = ResetHist(hist)
    /\ lastOp' = [op |-> "deviceUpdate", param |-> 0, val |-> 0]
    /\ UNCHANGED <<parVars, frame, samplesOut>>

(* ------------------------------------------------------------------ *)
(* ALautowahState::update                                              *)
(* ------------------------------------------------------------------ *)

\* ComputePanGains on GetAmbiIdentityRow(i): the slot's gain on the output
\* line the i'th ambisonic channel pans to, nothing on the others.
ComputePanGains(numOut, i, gain) ==
    [o \in OutChans |-> IF o < numOut /\ o = i % numOut THEN gain ELSE 0]

\* expf(-1.0f / (time*device->Frequency)), time in fixed point
RateOf(time, freq) == expf(FDiv(-FX, time * freq))

\* The six assignments of update.
Derived(p, freq) ==
    LET ReleaseTime == clampf(FloatToFix(p.ReleaseTime), FX \div 1000, FX)
    IN  [mAttackRate |-> RateOf(FloatToFix(p.AttackTime), freq),
         mReleaseRate |-> RateOf(ReleaseTime, freq),
         mResonanceGain |-> sqrt(RoundDiv(Log10Of(p.Resonance) * 10, 3)),
         mPeakGain |->
             FX - (Log10Of(p.PeakGain) - Log10Of(AL_AUTOWAH_MAX_PEAK_GAIN)),
         mFreqMinNorm |-> RoundDiv(MIN_FREQ * FX, freq),
         mBandwidthNorm |-> RoundDiv((MAX_FREQ - MIN_FREQ) * FX, freq)]

UpdatedTouchingFilter(st, p, dev) ==
    LET d == Derived(p, dev.Frequency)
    IN  [st EXCEPT
            !.mAttackRate = d.mAttackRate, !.mReleaseRate = d.mReleaseRate,
            !.mResonanceGain = d.mResonanceGain, !.mPeakGain = d.mPeakGain,
            !.mFreqMinNorm = d.mFreqMinNorm, !.mBandwidthNorm = d.mBandwidthNorm,
            !.mOutTarget = dev.NumChannels,
            !.mChans = [c \in AmbiChans |->
                IF c < dev.WetChannels
                THEN [st.mChans[c] EXCEPT
                        !.Filter.z1 = 0, !.Filter.z2 = 0,
                        !.TargetGains = ComputePanGains(dev.NumChannels, c, dev.Gain)]
                ELSE st.mChans[c]]]

\* The object after update: p is *props; dev gives device->Frequency,
\* target.Main->NumChannels, slot->Wet.NumChannels and slot->Params.Gain.
Updated(st, p, dev) ==
    LET d == Derived(p, dev.Frequency)
    IN  [st EXCEPT
            !.mAttackRate = d.mAttackRate, !.mReleaseRate = d.mReleaseRate,
            !.mResonanceGain = d.mResonanceGain, !.mPeakGain = d.mPeakGain,
            !.mFreqMinNorm = d.mFreqMinNorm, !.mBandwidthNorm = d.mBandwidthNorm,
            !.mOutTarget = dev.NumChannels,
            !.mChans = [c \in AmbiChans |->
                IF c < dev.WetChannels
                THEN [st.mChans[c] EXCEPT
                        !.TargetGains = ComputePanGains(dev.NumChannels, c, dev.Gain)]
                ELSE st.mChans[c]]]

update(p, dev) ==
    /\ ready
    /\ state' = Updated(state, p, dev)
    /\ hist' = [hist EXCEPT
                  !.steady = hist.steady /\ hist.feed = <<>> /\ frame.pc = "idle"]
    /\ lastOp' = [op |-> "update", param |-> 0, val |-> 0]
    /\ UNCHANGED <<parVars, ready, frame, samplesOut>>


(* ------------------------------------------------------------------ *)
(* ALautowahState::process                                             *)
(* ------------------------------------------------------------------ *)

CoefOfMember(local, member) == member

\* A rate or gain as the loops read it: the const local that process
\* copied from the member when the call began.
Coef(local, member) == local

NormFreqNyquist(bandwidth, env_delay, freq_min) ==
    minf(FMul(bandwidth, env_delay) + freq_min, FX \div 2)

\* minf((bandwidth*env_delay + freq_min), 0.46f): w0 before the factor Tau
NormFreq(bandwidth, env_delay, freq_min) ==
    minf(FMul(bandwidth, env_delay) + freq_min, (46 * FX) \div 100)

\* The envelope follower: a = (sample > env_delay) ? attack_rate : release_rate;
\* env_delay = lerp(sample, env_delay, a)
Follow(sample, env_delay, attack_rate, release_rate) ==
    lerp(sample, env_delay, IF sample > env_delay THEN attack_rate ELSE release_rate)

EnvCountShort(samplesToDo) == samplesToDo - 1

\* The bound of the envelope loop: i < samplesToDo
EnvCount(samplesToDo) == samplesToDo

RECURSIVE EnvLoop(_, _, _, _, _)
\* The envelope loop from sample i on.  acc holds env_delay and mEnv, and
\* the env_delay and the normalized frequency of every sample done; in0 is
\* samplesIn[0]; k holds the rates and gains the loop reads.
EnvLoop(i, n, acc, in0, k) ==
    IF i >= n THEN acc
    ELSE LET sample == FMul(k.peak_gain, Abs(in0[i]))
             env_delay == Follow(sample, acc.env_delay, k.attack_rate, k.release_rate)
             norm == NormFreq(k.bandwidth, env_delay, k.freq_min)
         IN  EnvLoop(i + 1, n,
                     [env_delay |-> env_delay,
                      mEnv |-> [acc.mEnv EXCEPT
                                  ![i] = [cos_w0 |-> CosTau(norm),
                                          alpha |-> RoundDiv(SinTau(norm), 2 * Q_FACTOR)]],
                      envs |-> Append(acc.envs, env_delay),
                      norms |-> Append(acc.norms, norm)],
                     in0, k)

RECURSIVE FilterLoop(_, _, _, _, _, _)
\* The filter loop of one channel from sample i on.  acc holds z1, z2 and
\* mBufferOut; env is mEnv; inc is samplesIn[c].
FilterLoop(i, n, acc, env, inc, res_gain) ==
    IF i >= n THEN acc
    ELSE LET alpha == env[i].alpha
             cos_w0 == env[i].cos_w0
             b0 == FX + FMul(alpha, res_gain)
             b1 == -2 * cos_w0
             b2 == FX - FMul(alpha, res_gain)
             a0 == FX + FDiv(alpha, res_gain)
             a1 == -2 * cos_w0
             a2 == FX - FDiv(alpha, res_gain)
             input == inc[i]
             output == FMul(input, FDiv(b0, a0)) + acc.z1
             z1 == FMul(input, FDiv(b1, a0)) - FMul(output, FDiv(a1, a0)) + acc.z2
             z2 == FMul(input, FDiv(b2, a0)) - FMul(output, FDiv(a2, a0))
         IN  FilterLoop(i + 1, n,
                        [z1 |-> z1, z2 |-> z2,
                         mBufferOut |-> [acc.mBufferOut EXCEPT ![i] = output]],
                        env, inc, res_gain)

\* MixSamples(data, samplesOut, CurrentGains, TargetGains, n, 0, n): each
\* output line gains the data scaled by a gain that steps linearly from
\* the current gain to the target, and the target becomes the current gain.
MixSamples(data, out, CurrentGains, TargetGains, n) ==
    [out |-> [o \in OutChans |-> [i \in Samples |->
                 IF i < n
                 THEN out[o][i] + FMul(data[i],
                        CurrentGains[o]
                        + RoundDiv((TargetGains[o] - CurrentGains[o]) * i, n))
                 ELSE out[o][i]]],
     CurrentGains |-> TargetGains]

\* The call begins: the six const locals are copied from the members.
ProcessBegin(samplesToDo, numInput, samplesIn) ==
    /\ ready
    /\ frame.pc = "idle"
    /\ hist.calls < MaxCalls
    /\ frame' = [pc |-> "envelope",
                 samplesToDo |-> samplesToDo, numInput |-> numInput,
                 samplesIn |-> samplesIn,
                 attack_rate |-> state.mAttackRate,
                 release_rate |-> state.mReleaseRate,
                 res_gain |-> state.mResonanceGain,
                 peak_gain |-> state.mPeakGain,
                 freq_min |-> state.mFreqMinNorm,
                 bandwidth |-> state.mBandwidthNorm,
                 c |-> 0]
    /\ samplesOut' = [o \in OutChans |-> ZeroLine]
    /\ hist' = [hist EXCEPT
                  !.calls = hist.calls + 1,
                  !.snap = <<state.mAttackRate, state.mReleaseRate,
                             state.mResonanceGain, state.mPeakGain,
                             state.mFreqMinNorm, state.mBandwidthNorm>>,
                  !.used = {},
                  !.quiet = hist.quiet /\ \A c \in 0 .. numInput - 1 :
                               \A i \in 0 .. samplesToDo - 1 : samplesIn[c][i] = 0,
                  !.done = 0]
    /\ lastOp' = [op |-> "process", param |-> 0, val |-> 0]
    /\ UNCHANGED <<parVars, state, ready>>

\* The rates and gains the envelope loop reads.
EnvCoefs ==
    [attack_rate |-> Coef(frame.attack_rate, state.mAttackRate),
     release_rate |-> Coef(frame.release_rate, state.mReleaseRate),
     peak_gain |-> Coef(frame.peak_gain, state.mPeakGain),
     freq_min |-> Coef(frame.freq_min, state.mFreqMinNorm),
     bandwidth |-> Coef(frame.bandwidth, state.mBandwidthNorm)]

\* The envelope loop over a scratch env, from the member mEnvDelay.
EnvPass(env) ==
    EnvLoop(0, EnvCount(frame.samplesToDo),
            [env_delay |-> state.mEnvDelay, mEnv |-> env,
             envs |-> <<>>, norms |-> <<>>],
            frame.samplesIn[0], EnvCoefs)

StoreEnvScratchOnly(st, r) == [st EXCEPT !.mEnv = r.mEnv]

\* What the envelope loop leaves in the object: the mEnv entries it wrote,
\* and mEnvDelay = env_delay.
StoreEnv(st, r) == [st EXCEPT !.mEnvDelay = r.env_delay, !.mEnv = r.mEnv]

\* The envelope loop, and mEnvDelay = env_delay after it.
EnvelopeLoop ==
    /\ frame.pc = "envelope"
    /\ LET r == EnvPass(state.mEnv)
           k == EnvCoefs
       IN  /\ state' = StoreEnv(state, r)
           /\ hist' = [hist EXCEPT
                  !.feed = hist.feed \o [j \in 1 .. frame.samplesToDo |->
                                            Abs(frame.samplesIn[0][j - 1])],
                  !.envs = hist.envs \o r.envs,
                  !.norms = r.norms,
                  !.used = hist.used \cup
                      {<<"attack_rate", k.attack_rate>>, <<"release_rate", k.release_rate>>,
                       <<"peak_gain", k.peak_gain>>, <<"freq_min", k.freq_min>>,
                       <<"bandwidth", k.bandwidth>>}]
    /\ frame' = [frame EXCEPT !.pc = "channels"]
    /\ lastOp' = [op |-> "process", param |-> 0, val |-> 0]
    /\ UNCHANGED <<parVars, ready, samplesOut>>

\* z1, z2 and mBufferOut after the filter loop of channel c over scratch env.
ChanPass(c, env) ==
    FilterLoop(0, frame.samplesToDo,
               [z1 |-> state.mChans[c].Filter.z1, z2 |-> state.mChans[c].Filter.z2,
                mBufferOut |-> state.mBufferOut],
               env, frame.samplesIn[c], Coef(frame.res_gain, state.mResonanceGain))

\* One round of the loop over the input channels: the filter loop, the
\* store of z1 and z2, and MixSamples.  The call returns after the last.
ChannelLoop ==
    /\ frame.pc = "channels"
    /\ LET c == frame.c
           r == ChanPass(c, state.mEnv)
           m == MixSamples(r.mBufferOut, samplesOut,
                           state.mChans[c].CurrentGains,
                           state.mChans[c].TargetGains, frame.samplesToDo)
       IN  /\ state' = [state EXCEPT
                  !.mBufferOut = r.mBufferOut,
                  !.mChans[c].Filter.z1 = r.z1,
                  !.mChans[c].Filter.z2 = r.z2,
                  !.mChans[c].CurrentGains = m.CurrentGains]
           /\ samplesOut' = m.out
           /\ hist' = [hist EXCEPT
                  !.used = hist.used \cup
                      {<<"res_gain", Coef(frame.res_gain, state.mResonanceGain)>>},
                  !.done = frame.samplesToDo]
           /\ frame' = IF c + 1 < frame.numInput
                       THEN [frame EXCEPT !.c = c + 1]
                       ELSE IdleFrame
    /\ lastOp' = [op |-> "process", param |-> 0, val |-> 0]
    /\ UNCHANGED <<parVars, ready>>

(* ------------------------------------------------------------------ *)
(* Inputs of the effect state                                          *)
(* ------------------------------------------------------------------ *)

\* Lines of n samples: silence; 2.0f with the sign alternating; -2.0f
\* once and silence after it.
Silence(n) == [i \in 0 .. n - 1 |-> 0]
Flip(n) == [i \in 0 .. n - 1 |-> IF i % 2 = 0 THEN 2 * FX ELSE -2 * FX]
Burst(n) == [i \in 0 .. n - 1 |-> IF i = 0 THEN -2 * FX ELSE 0]

\* samplesToDo: one sample or a full buffer.
BlockSizes == {1, BUFFERSIZE}

\* numInput and samplesIn: silence on every channel; the alternating line
\* on channel 0 and a constant 0.5f on every other; the burst on the one
\* channel given.
InputBlocks(n) ==
    {<<MAX_AMBI_CHANNELS, [c \in AmbiChans |-> Silence(n)]>>,
     <<MAX_AMBI_CHANNELS,
       [c \in AmbiChans |-> IF c = 0 THEN Flip(n) ELSE [i \in 0 .. n - 1 |-> FX \div 2]]>>,
     <<1, [c \in {0} |-> Burst(n)]>>}

MinProps ==
    [AttackTime |-> AL_AUTOWAH_MIN_ATTACK_TIME,
     ReleaseTime |-> AL_AUTOWAH_MIN_RELEASE_TIME,
     Resonance |-> AL_AUTOWAH_MIN_RESONANCE,
     PeakGain |-> AL_AUTOWAH_MIN_PEAK_GAIN]

MaxProps ==
    [AttackTime |-> AL_AUTOWAH_MAX_ATTACK_TIME,
     ReleaseTime |-> AL_AUTOWAH_MAX_RELEASE_TIME,
     Resonance |-> AL_AUTOWAH_MAX_RESONANCE,
     PeakGain |-> AL_AUTOWAH_MAX_PEAK_GAIN]

\* A device at 48 kHz with every wet and output channel in use at half
\* gain, and one at 8 kHz with one of each at unit gain.
Device48k ==
    [Frequency |-> 48000, NumChannels |-> MAX_OUTPUT_CHANNELS,
     WetChannels |-> MAX_AMBI_CHANNELS, Gain |-> FX \div 2]
Device8k ==
    [Frequency |-> 8000, NumChannels |-> 1, WetChannels |-> 1, Gain |-> FX]

\* What update is given: the default properties or every maximum at
\* 48 kHz, every minimum at 8 kHz.
Updates ==
    {<<getDefaultProps, Device48k>>, <<MaxProps, Device48k>>, <<MinProps, Device8k>>}

(* ------------------------------------------------------------------ *)
(* Specifications                                                      *)
(* ------------------------------------------------------------------ *)

Init ==
    /\ props = getDefaultProps
    /\ alError = "AL_NO_ERROR"
    /\ outVals = <<0, 0>>
    /\ lastOp = [op |-> "create", param |-> 0, val |-> 0]
    /\ state = NewState
    /\ ready = FALSE
    /\ frame = IdleFrame
    /\ samplesOut = [o \in OutChans |-> ZeroLine]
    /\ hist = NewHist

\* The calls of the parameter interface.
ParamCall ==
    \/ \E param \in ParamIds : \E val \in FloatInputs(param) : ALautowah_setParamf(param, val)
    \/ \E param \in ParamIds, tail \in FloatTails : \E val \in FloatInputs(param) :
          ALautowah_setParamfv(param, <<val, tail>>)
    \/ \E param \in ParamIds, val \in IntInputs : ALautowah_setParami(param, val)
    \/ \E param \in ParamIds, val \in IntInputs : ALautowah_setParamiv(param, <<val, 0>>)
    \/ \E param \in ParamIds : ALautowah_getParamf(param)
    \/ \E param \in ParamIds : ALautowah_getParamfv(param)
    \/ \E param \in ParamIds : ALautowah_getParami(param)
    \/ \E param \in ParamIds : ALautowah_getParamiv(param)

\* The calls on the effect state, as the mixer makes them: one after another.
StateCall ==
    \/ deviceUpdate
    \/ \E u \in Updates : frame.pc = "idle" /\ update(u[1], u[2])
    \/ \E n \in BlockSizes : \E b \in InputBlocks(n) : ProcessBegin(n, b[1], b[2])
    \/ EnvelopeLoop
    \/ ChannelLoop

\* The same calls with no order between the threads: update is given the
\* property bag as the control thread left it, at any point of a process
\* call, and the control thread sets parameters meanwhile.
AsyncCall ==
    \/ \E pv \in {<<AL_AUTOWAH_PEAK_GAIN, AL_AUTOWAH_MIN_PEAK_GAIN>>,
                   <<AL_AUTOWAH_RESONANCE, AL_AUTOWAH_MIN_RESONANCE - 1>>} :
          ALautowah_setParamf(pv[1], pv[2])
    \/ deviceUpdate
    \/ update(props, Device8k)
    \/ \E n \in BlockSizes : \E b \in InputBlocks(n) :
          b[2][0] # Silence(n) /\ ProcessBegin(n, b[1], b[2])
    \/ EnvelopeLoop
    \/ ChannelLoop

NextParams == ParamCall
SpecParams == Init /\ [][NextParams]_vars

Next == StateCall
Spec == Init /\ [][Next]_vars

NextAsync == AsyncCall
SpecAsync == Init /\ [][NextAsync]_vars


(* ------------------------------------------------------------------ *)
(* Properties                                                          *)
(* ------------------------------------------------------------------ *)

FloatSetOps == {"setParamf", "setParamfv"}
FloatOps == {"setParamf", "setParamfv", "getParamf", "getParamfv"}
IntOps == {"setParami", "setParamiv", "getParami", "getParamiv"}

Chan(c) == state.mChans[c]

\* C1: setParamf of a recognized parameter with min <= v <= max stores v
\* and signals no error, the bounds included; with v < min or v > max it
\* signals AL_INVALID_VALUE and leaves the whole property bag as it was.
C1_RangeEnforced ==
    [][lastOp'.op = "setParamf" /\ lastOp'.param \in FloatParams =>
         LET q == lastOp'.param
             v == lastOp'.val
         IN  /\ (FGe(v, MinOf(q)) /\ FLe(v, MaxOf(q))) =>
                   FieldOf(props', q) = v /\ alError' = "AL_NO_ERROR"
             /\ (FLt(v, MinOf(q)) \/ FGt(v, MaxOf(q))) =>
                   alError' = "AL_INVALID_VALUE" /\ props' = props]_vars

\* The peak gain was set to exactly its minimum, and then a set of the
\* float one ulp below the minimum was refused.
C1_Witness ==
    /\ lastOp = [op |-> "setParamf", param |-> AL_AUTOWAH_PEAK_GAIN,
                 val |-> AL_AUTOWAH_MIN_PEAK_GAIN - 1]
    /\ alError = "AL_INVALID_VALUE"
    /\ props.PeakGain = AL_AUTOWAH_MIN_PEAK_GAIN

\* C2: from the default property bag, whatever set calls are made, each of
\* the four stored parameters is within its [min, max].
C2_StoredInRange ==
    \A q \in FloatParams :
        FGe(FieldOf(props, q), MinOf(q)) /\ FLe(FieldOf(props, q), MaxOf(q))

\* Every parameter was moved off its default, and the last set (a NaN)
\* was refused.
C2_Witness ==
    /\ props = [AttackTime |-> AL_AUTOWAH_MIN_ATTACK_TIME,
                ReleaseTime |-> AL_AUTOWAH_MAX_RELEASE_TIME,
                Resonance |-> AL_AUTOWAH_MIN_RESONANCE,
                PeakGain |-> AL_AUTOWAH_MAX_PEAK_GAIN]
    /\ lastOp.op = "setParamfv" /\ lastOp.val = FNaN
    /\ alError = "AL_INVALID_VALUE"

\* C3: a float set or get with an identifier that is none of the four, and
\* every integer set or get, signals AL_INVALID_ENUM and leaves the
\* property bag as it was.
C3_InvalidEnum ==
    [][(lastOp'.op \in FloatOps /\ lastOp'.param \notin FloatParams)
       \/ lastOp'.op \in IntOps =>
          alError' = "AL_INVALID_ENUM" /\ props' = props]_vars

\* A float get with an unrecognized identifier, on a bag that sets changed.
C3_Witness ==
    /\ lastOp.op = "getParamfv" /\ lastOp.param = 5
    /\ alError = "AL_INVALID_ENUM"
    /\ props.Resonance = AL_AUTOWAH_MIN_RESONANCE

\* C4: right after deviceUpdate z1, z2 and every CurrentGains entry of
\* every channel and mEnvDelay are zero; and as long as process is given
\* only silence after it, z1, z2 and mEnvDelay stay zero and every sample
\* the filter loop wrote to mBufferOut is zero.
C4_ResetThenSilence ==
    /\ lastOp.op = "deviceUpdate" =>
          /\ state.mEnvDelay = 0
          /\ \A c \in AmbiChans :
                /\ Chan(c).Filter.z1 = 0 /\ Chan(c).Filter.z2 = 0
                /\ \A o \in OutChans : Chan(c).CurrentGains[o] = 0
    /\ hist.quiet =>
          /\ state.mEnvDelay = 0
          /\ \A c \in AmbiChans : Chan(c).Filter.z1 = 0 /\ Chan(c).Filter.z2 = 0
          /\ \A i \in Samples : i < hist.done => state.mBufferOut[i] = 0

\* A one-sample call on silence has returned after a reset that followed a
\* call on a full buffer of sound: the sample that call left at the end of
\* mBufferOut is still there.
C4_Witness ==
    /\ hist.quiet /\ hist.done = 1 /\ frame.pc = "idle" /\ hist.calls = 2
    /\ state.mBufferOut[BUFFERSIZE - 1] # 0

\* C5, as claimed: after deviceUpdate the six rates and gains hold their
\* literals, mEnvDelay is zero, and z1, z2, every CurrentGains entry and
\* every TargetGains entry of every channel are zero.
C5_FullReset ==
    lastOp.op = "deviceUpdate" =>
        /\ state.mAttackRate = FX /\ state.mReleaseRate = FX
        /\ state.mResonanceGain = 10 * FX /\ state.mPeakGain = (45 * FX) \div 10
        /\ state.mFreqMinNorm = 5 /\ state.mBandwidthNorm = (5 * FX) \div 100
        /\ state.mEnvDelay = 0
        /\ \A c \in AmbiChans :
              /\ Chan(c).Filter.z1 = 0 /\ Chan(c).Filter.z2 = 0
              /\ \A o \in OutChans :
                    Chan(c).CurrentGains[o] = 0 /\ Chan(c).TargetGains[o] = 0

\* C5, amended: deviceUpdate leaves the six rates and gains at their
\* literals, mEnvDelay, every mEnv entry, and z1, z2 and every CurrentGains
\* entry of every channel at zero, whatever preceded it; it does not touch
\* TargetGains, mOutTarget or mBufferOut, which keep what they held.
C5_ResetKeepsTargets ==
    [][lastOp'.op = "deviceUpdate" =>
         /\ state'.mAttackRate = FX /\ state'.mReleaseRate = FX
         /\ state'.mResonanceGain = 10 * FX /\ state'.mPeakGain = (45 * FX) \div 10
         /\ state'.mFreqMinNorm = 5 /\ state'.mBandwidthNorm = (5 * FX) \div 100
         /\ state'.mEnvDelay = 0
         /\ \A i \in Samples : state'.mEnv[i] = [cos_w0 |-> 0, alpha |-> 0]
         /\ \A c \in AmbiChans :
               /\ state'.mChans[c].Filter = [z1 |-> 0, z2 |-> 0]
               /\ \A o \in OutChans : state'.mChans[c].CurrentGains[o] = 0
               /\ state'.mChans[c].TargetGains = state.mChans[c].TargetGains
         /\ state'.mOutTarget = state.mOutTarget
         /\ state'.mBufferOut = state.mBufferOut]_vars

\* A reset after an update and a call on sound: a target gain is still set
\* and the envelope scratch was in use.
C5_Witness ==
    /\ lastOp.op = "deviceUpdate" /\ hist.calls >= 1
    /\ \E c \in AmbiChans, o \in OutChans : Chan(c).TargetGains[o] # 0
    /\ state.mBufferOut[0] # 0

\* C6: update leaves z1, z2 and every CurrentGains entry of every channel
\* and mEnvDelay as they were; of the object it writes only the six rates
\* and gains, mOutTarget and TargetGains.
C6_UpdateKeepsFilter ==
    [][lastOp'.op = "update" =>
         /\ state'.mEnvDelay = state.mEnvDelay
         /\ state'.mEnv = state.mEnv
         /\ state'.mBufferOut = state.mBufferOut
         /\ \A c \in AmbiChans :
               /\ state'.mChans[c].Filter = state.mChans[c].Filter
               /\ state'.mChans[c].CurrentGains = state.mChans[c].CurrentGains
         /\ frame' = frame /\ samplesOut' = samplesOut]_vars

\* update has run between two rounds of the channel loop of a call on
\* sound: filter memory, a current gain and the envelope are all non-zero.
C6_Witness ==
    /\ lastOp.op = "update" /\ frame.pc = "channels" /\ frame.c = 1
    /\ Chan(0).Filter.z1 # 0 /\ Chan(0).Filter.z2 # 0
    /\ Chan(0).CurrentGains[0] # 0
    /\ state.mEnvDelay # 0

SnapOf(name) ==
    CASE name = "attack_rate" -> hist.snap[1]
      [] name = "release_rate" -> hist.snap[2]
      [] name = "res_gain" -> hist.snap[3]
      [] name = "peak_gain" -> hist.snap[4]
      [] name = "freq_min" -> hist.snap[5]
      [] name = "bandwidth" -> hist.snap[6]

\* C7: a setParamf call changes nothing of the effect state or of the
\* running process call, so without an update the next call computes what
\* it would have; and every rate and gain the loops of a process call read
\* is the one the object held when the call began, whatever update wrote
\* between the steps of the call.
C7_BlockBoundary ==
    /\ [][lastOp'.op \in FloatSetOps =>
            state' = state /\ frame' = frame /\ samplesOut' = samplesOut]_vars
    /\ [](\A u \in hist.used : u[2] = SnapOf(u[1]))

\* The envelope loop of a call has run, update has since replaced the peak
\* gain and the resonance gain the call began with, and a set was accepted
\* after that.
C7_Witness ==
    /\ frame.pc = "channels" /\ frame.c = 1
    /\ state.mPeakGain # frame.peak_gain
    /\ state.mResonanceGain # frame.res_gain
    /\ lastOp.op = "setParamf" /\ alError = "AL_NO_ERROR"

\* The feed since the reset is k samples of one amplitude and then silence.
StepFeed(k) ==
    /\ \A j \in 1 .. Len(hist.feed) :
          hist.feed[j] = IF j <= k THEN hist.feed[1] ELSE 0
    /\ k >= 1 => hist.feed[1] > 0

\* C8: with both rates in [0, 1] and from a reset, while channel 0 is fed a
\* constant amplitude A the envelope never falls from one sample to the
\* next and never exceeds peakGain*A; while it is fed silence after that
\* the envelope never rises and never goes below zero; across the process
\* calls that deliver the samples.
C8_EnvelopeMonotone ==
    \A k \in 0 .. Len(hist.feed) :
        (/\ hist.steady /\ StepFeed(k)
         /\ state.mAttackRate \in 0 .. FX /\ state.mReleaseRate \in 0 .. FX)
        => \A j \in 1 .. Len(hist.feed) :
              IF j <= k
              THEN /\ hist.envs[j] <= hist.envs[j + 1]
                   /\ hist.envs[j + 1] <= FMul(state.mPeakGain, hist.feed[1])
              ELSE /\ hist.envs[j] >= hist.envs[j + 1]
                   /\ hist.envs[j + 1] >= 0

\* Two calls: the envelope rose over the samples of the first and over the
\* first sample of the second, and fell on the silence that ended it.
C8_Witness ==
    /\ hist.steady /\ hist.calls = 2 /\ Len(hist.feed) = BUFFERSIZE + 1
    /\ StepFeed(BUFFERSIZE)
    /\ \A j \in 1 .. BUFFERSIZE : hist.envs[j] < hist.envs[j + 1]
    /\ hist.envs[BUFFERSIZE + 2] < hist.envs[BUFFERSIZE + 1]

\* C9: the normalized frequency of every sample of every process call is
\* above zero and at most 0.46.
C9_FrequencyBounded ==
    \A j \in 1 .. Len(hist.norms) :
        hist.norms[j] > 0 /\ hist.norms[j] <= (46 * FX) \div 100

\* The envelope loop of a full block has run and the envelope it left
\* maps above the ceiling: the block's last frequency is the ceiling.
C9_Witness ==
    /\ frame.pc = "channels" /\ Len(hist.norms) = BUFFERSIZE
    /\ FMul(frame.bandwidth, state.mEnvDelay) + frame.freq_min > (46 * FX) \div 100
    /\ hist.norms[BUFFERSIZE] = (46 * FX) \div 100

\* Scratch contents another object could hold.
OtherScratch ==
    {[i \in Samples |-> [cos_w0 |-> FX \div 2, alpha |-> FX \div 20]],
     [i \in Samples |-> [cos_w0 |-> -(i + 1), alpha |-> FX]]}

\* C10: when a process call begins, what it computes does not depend on
\* what mEnv holds: with any other scratch contents the envelope loop
\* leaves the same env_delay, and the filter loop of every input channel
\* leaves the same z1 and z2 and writes the same samples to mBufferOut.
C10_ScratchIsPerCall ==
    frame.pc = "envelope" =>
        \A alt \in OtherScratch :
            LET a == EnvPass(state.mEnv)
                b == EnvPass(alt)
            IN  /\ a.env_delay = b.env_delay
                /\ \A c \in 0 .. frame.numInput - 1 :
                      ChanPass(c, a.mEnv) = ChanPass(c, b.mEnv)

\* A one-sample call on sound begins, on filter memory in use, while the
\* scratch still holds the last entry of an earlier full block.
C10_Witness ==
    /\ frame.pc = "envelope" /\ frame.samplesToDo = 1
    /\ frame.samplesIn[0][0] # 0
    /\ state.mEnv[BUFFERSIZE - 1] # [cos_w0 |-> 0, alpha |-> 0]
    /\ Chan(0).Filter.z1 # 0

=============================================================================
